---- MODULE Spec2Model ----
(***************************************************************************)
(* A model of webbshop.py: the Inventory (an ordered list of Products),   *)
(* its CSV persistence (csv.DictWriter / csv.DictReader over a text file), *)
(* and the session loop of main().                                         *)
(*                                                                         *)
(* Text is modelled character by character: a Python str is a sequence of  *)
(* one-character tokens.  The tokens "CR", "LF" and "QUOTE" stand for the  *)
(* carriage return, the line feed and the double quote.  A float is        *)
(* modelled by its value in hundredths (9.5 is 950); the texts of the      *)
(* model carry at most two fractional digits, so the value is exact.       *)
(***************************************************************************)
EXTENDS Integers, Sequences, FiniteSets, TLC

VARIABLES products, file, pc, msg

vars == <<products, file, pc, msg>>

(***************************************************************************)
(* Bounds of the model.                                                    *)
(***************************************************************************)
\* the session adds a product only while fewer than MaxProducts are held
MaxProducts == 2

(***************************************************************************)
(* Characters and strings.                                                 *)
(***************************************************************************)
Digits == <<"0", "1", "2", "3", "4", "5", "6", "7", "8", "9">>

IsDigit(c) == \E d \in 1..10 : Digits[d] = c

DigitVal(c) == (CHOOSE d \in 1..10 : Digits[d] = c) - 1

\* the characters str.strip() / int() / float() treat as white space
IsSpace(c) == c \in {" ", "CR", "LF", "TAB"}

\* the value DictReader gives a column the row does not have (restval)
None == <<"<None>">>

\* str.lower(), on the letters the session's inputs use
LowerChar(c) ==
    CASE c = "A" -> "a" [] c = "D" -> "d" [] c = "E" -> "e" [] c = "I" -> "i"
      [] c = "T" -> "t" [] c = "X" -> "x" [] c = "N" -> "n" [] c = "M" -> "m"
      [] c = "P" -> "p" [] c = "R" -> "r" [] c = "C" -> "c" [] OTHER -> c

Lower(s) == [i \in 1..Len(s) |-> LowerChar(s[i])]

RECURSIVE NatStr(_)
NatStr(n) ==
    IF n < 10 THEN <<Digits[n + 1]>>
    ELSE NatStr(n \div 10) \o <<Digits[(n % 10) + 1]>>

\* str(int), as csv.writer renders an int field
IntStr(n) == IF n < 0 THEN <<"-">> \o NatStr(-n) ELSE NatStr(n)

\* repr(float), as csv.writer renders a float field: shortest text that
\* reads back to the same value, always with a fractional part
FloatStr(c) ==
    LET a    == IF c < 0 THEN -c ELSE c
        sign == IF c < 0 THEN <<"-">> ELSE <<>>
        frac == IF a % 100 = 0 THEN <<"0">>
                ELSE IF a % 10 = 0 THEN <<Digits[((a % 100) \div 10) + 1]>>
                ELSE <<Digits[((a % 100) \div 10) + 1], Digits[(a % 10) + 1]>>
    IN  sign \o NatStr(a \div 100) \o <<".">> \o frac

\* s without its leading and trailing white space
Strip(s) ==
    LET keep == {i \in 1..Len(s) : ~IsSpace(s[i])}
    IN  IF keep = {} THEN <<>>
        ELSE LET lo == CHOOSE i \in keep : \A j \in keep : i <= j
                 hi == CHOOSE i \in keep : \A j \in keep : i >= j
             IN  SubSeq(s, lo, hi)

RECURSIVE DigitsVal(_)
DigitsVal(s) ==
    IF s = <<>> THEN 0
    ELSE 10 * DigitsVal(SubSeq(s, 1, Len(s) - 1)) + DigitVal(s[Len(s)])

AllDigits(s) == \A i \in 1..Len(s) : IsDigit(s[i])

Unsigned(t) == IF t # <<>> /\ t[1] \in {"-", "+"} THEN Tail(t) ELSE t

Signed(t, v) == IF t # <<>> /\ t[1] = "-" THEN -v ELSE v

\* int(s): TypeError on None, ValueError unless s is [space] [sign] digits
\* [space]
ParseInt(s) ==
    IF s = None THEN [err |-> "TypeError", val |-> 0]
    ELSE LET t == Strip(s)
             u == Unsigned(t)
         IN  IF u # <<>> /\ AllDigits(u)
             THEN [err |-> "ok", val |-> Signed(t, DigitsVal(u))]
             ELSE [err |-> "ValueError", val |-> 0]

\* float(s), in hundredths: TypeError on None, ValueError unless s is
\* [space] [sign] digits [. digits] [space] or [sign] . digits.  No text
\* of the model has more than two fractional digits, which hundredths
\* could not hold
ParseFloat(s) ==
    IF s = None THEN [err |-> "TypeError", val |-> 0]
    ELSE LET t    == Strip(s)
             u    == Unsigned(t)
             dots == {i \in 1..Len(u) : u[i] = "."}
             dot  == IF dots = {} THEN Len(u) + 1 ELSE CHOOSE i \in dots : TRUE
             ip   == SubSeq(u, 1, dot - 1)
             fp   == SubSeq(u, dot + 1, Len(u))
             fp2  == SubSeq(fp \o <<"0", "0">>, 1, 2)
         IN  IF /\ Cardinality(dots) <= 1
                /\ AllDigits(ip) /\ AllDigits(fp)
                /\ Len(ip) + Len(fp) > 0
                /\ Len(fp) <= 2
             THEN [err |-> "ok",
                   val |-> Signed(t, 100 * DigitsVal(ip) + DigitsVal(fp2))]
             ELSE [err |-> "ValueError", val |-> 0]

(***************************************************************************)
(* The CSV text written by csv.DictWriter (save_data) and read back by    *)
(* csv.DictReader (load_data).                                             *)
(***************************************************************************)
FieldNames == << <<"i", "d">>, <<"n", "a", "m", "e">>, <<"d", "e", "s", "c">>,
                 <<"p", "r", "i", "c", "e">>,
                 <<"q", "u", "a", "n", "t", "i", "t", "y">> >>

\* QUOTE_MINIMAL: a field is quoted when it holds the delimiter, the quote
\* character or a character of the line terminator
NeedsQuote(s) == \E i \in 1..Len(s) : s[i] \in {",", "QUOTE", "CR", "LF"}

RECURSIVE DoubleQuotes(_)
DoubleQuotes(s) ==
    IF s = <<>> THEN <<>>
    ELSE (IF s[1] = "QUOTE" THEN <<"QUOTE", "QUOTE">> ELSE <<s[1]>>)
         \o DoubleQuotes(Tail(s))

WriteField(s) ==
    IF NeedsQuote(s) THEN <<"QUOTE">> \o DoubleQuotes(s) \o <<"QUOTE">> ELSE s

RECURSIVE JoinFields(_)
JoinFields(fs) ==
    IF Len(fs) = 0 THEN <<>>
    ELSE IF Len(fs) = 1 THEN WriteField(fs[1])
    ELSE WriteField(fs[1]) \o <<",">> \o JoinFields(Tail(fs))

\* writer.writerow: the fields, then the line terminator "\r\n"
WriteRow(fs) == JoinFields(fs) \o <<"CR", "LF">>

ProductRow(p) ==
    WriteRow(<<IntStr(p.id), p.name, p.desc, FloatStr(p.price),
               IntStr(p.quantity)>>)

RECURSIVE WriteRows(_)
WriteRows(ps) ==
    IF ps = <<>> THEN <<>> ELSE ProductRow(ps[1]) \o WriteRows(Tail(ps))

\* save_data: the file is opened with newline='', so the text is stored as
\* written; the header row first, then one row per product
save_data(ps) == [exists |-> TRUE, text |-> WriteRow(FieldNames) \o WriteRows(ps)]

\* open(filename, 'r'): universal newlines, "\r\n" and "\r" are read as "\n"
Translate(t) ==
    LET keep == SelectSeq([i \in 1..Len(t) |-> i],
                          LAMBDA i : ~(t[i] = "LF" /\ i > 1 /\ t[i - 1] = "CR"))
    IN  [k \in 1..Len(keep) |-> IF t[keep[k]] = "CR" THEN "LF" ELSE t[keep[k]]]

\* csv.reader's parser on one character; "EOL" is the end of a line of the
\* file.  r holds the parser state, the field and the row being read, and
\* the rows completed
SaveField(r) == [r EXCEPT !.field = <<>>, !.row = Append(r.row, r.field)]

EndRecord(r) ==
    [r EXCEPT !.state = "START_RECORD", !.row = <<>>, !.rows = Append(r.rows, r.row)]

AddChar(r, c) == [r EXCEPT !.field = Append(r.field, c)]

ParseChar(r, c) ==
    LET st  == IF r.state = "START_RECORD" /\ c \notin {"EOL", "LF", "CR"}
               THEN "START_FIELD" ELSE r.state
        nl  == c \in {"LF", "CR"}
    IN  CASE st = "START_RECORD" ->
               IF c = "EOL" THEN EndRecord(r)
               ELSE [r EXCEPT !.state = "EAT_CRNL"]
          [] st = "START_FIELD" ->
               IF c = "EOL" THEN EndRecord(SaveField(r))
               ELSE IF nl THEN [SaveField(r) EXCEPT !.state = "EAT_CRNL"]
               ELSE IF c = "QUOTE" THEN [r EXCEPT !.state = "IN_QUOTED_FIELD"]
               ELSE IF c = "," THEN [SaveField(r) EXCEPT !.state = "START_FIELD"]
               ELSE [AddChar(r, c) EXCEPT !.state = "IN_FIELD"]
          [] st = "IN_FIELD" ->
               IF c = "EOL" THEN EndRecord(SaveField(r))
               ELSE IF nl THEN [SaveField(r) EXCEPT !.state = "EAT_CRNL"]
               ELSE IF c = "," THEN [SaveField(r) EXCEPT !.state = "START_FIELD"]
               ELSE AddChar(r, c)
          [] st = "IN_QUOTED_FIELD" ->
               IF c = "EOL" THEN r
               ELSE IF c = "QUOTE" THEN [r EXCEPT !.state = "QUOTE_IN_QUOTED_FIELD"]
               ELSE AddChar(r, c)
          [] st = "QUOTE_IN_QUOTED_FIELD" ->
               IF c = "QUOTE" THEN [AddChar(r, c) EXCEPT !.state = "IN_QUOTED_FIELD"]
               ELSE IF c = "," THEN [SaveField(r) EXCEPT !.state = "START_FIELD"]
               ELSE IF c = "EOL" THEN EndRecord(SaveField(r))
               ELSE IF nl THEN [SaveField(r) EXCEPT !.state = "EAT_CRNL"]
               ELSE [AddChar(r, c) EXCEPT !.state = "IN_FIELD"]
          [] st = "EAT_CRNL" ->
               IF c = "EOL" THEN EndRecord(r) ELSE r

\* the file is read line by line: every line ends at its "LF", and the
\* parser is given "EOL" after the last character of each line.
\* ParseText(r, t, lo, hi) is the parser after the characters lo..hi of t
RECURSIVE ParseText(_, _, _, _)
ParseText(r, t, lo, hi) ==
    IF lo > hi THEN r
    ELSE IF lo = hi
    THEN LET r1 == ParseChar(r, t[lo])
         IN  IF t[lo] = "LF" \/ lo = Len(t) THEN ParseChar(r1, "EOL") ELSE r1
    ELSE LET mid == (lo + hi) \div 2
             r1  == ParseText(r, t, lo, mid)
         IN  IF r1.state = "" THEN r1 ELSE ParseText(r1, t, mid + 1, hi)

\* the rows csv.reader yields: at the end of the input a record left open
\* inside a quoted field is yielded as it stands
ReadRows(t) ==
    LET r == ParseText([state |-> "START_RECORD", field |-> <<>>,
                        row |-> <<>>, rows |-> <<>>], t, 1, Len(t))
    IN  IF r.state = "IN_QUOTED_FIELD" THEN Append(r.rows, Append(r.row, r.field))
        ELSE r.rows

\* row[key] of the dict DictReader makes of a row: the last column of that
\* name; None when the row is too short to have it; KeyError when no
\* column of the header has the name
Column(names, row, key) ==
    LET at == {i \in 1..Len(names) : names[i] = key}
    IN  IF at = {} THEN [err |-> "KeyError", val |-> None]
        ELSE LET i == CHOOSE j \in at : \A k \in at : k <= j
             IN  [err |-> "ok", val |-> IF i <= Len(row) THEN row[i] ELSE None]

(***************************************************************************)
(* Product and Inventory.                                                  *)
(***************************************************************************)
Product(id, name, desc, price, quantity) ==
    [id |-> id, name |-> name, desc |-> desc, price |-> price,
     quantity |-> quantity]

FirstError(errs) ==
    LET bad == {i \in 1..Len(errs) : errs[i] # "ok"}
    IN  IF bad = {} THEN "ok"
        ELSE errs[CHOOSE i \in bad : \A j \in bad : i <= j]

\* the Product load_data builds of one row; the arguments are evaluated in
\* order and the first exception ends the load
RowProduct(names, row) ==
    LET cid == Column(names, row, FieldNames[1])
        cnm == Column(names, row, FieldNames[2])
        cds == Column(names, row, FieldNames[3])
        cpr == Column(names, row, FieldNames[4])
        cqt == Column(names, row, FieldNames[5])
        id  == ParseInt(cid.val)
        pr  == ParseFloat(cpr.val)
        qt  == ParseInt(cqt.val)
    IN  [err |-> FirstError(<<cid.err, id.err, cnm.err, cds.err, cpr.err,
                              pr.err, cqt.err, qt.err>>),
         product |-> Product(id.val, cnm.val, cds.val, pr.val, qt.val)]

RECURSIVE LoadRows(_, _, _, _)
LoadRows(ps, names, rows, i) ==
    IF i > Len(rows) THEN [products |-> ps, err |-> "ok"]
    ELSE IF rows[i] = <<>> THEN LoadRows(ps, names, rows, i + 1)
    ELSE LET r == RowProduct(names, rows[i])
         IN  IF r.err # "ok" THEN [products |-> ps, err |-> r.err]
             ELSE LoadRows(Append(ps, r.product), names, rows, i + 1)

\* load_data: a missing file leaves the inventory as it is; the first row
\* of the file names the columns, empty rows are skipped
load_data(ps, f) ==
    IF ~f.exists THEN [products |-> ps, err |-> "ok"]
    ELSE LET rows == ReadRows(Translate(f.text))
         IN  IF rows = <<>> THEN [products |-> ps, err |-> "ok"]
             ELSE LoadRows(ps, rows[1], rows, 2)

Ids(ps) == {ps[i].id : i \in 1..Len(ps)}

Max(S) == CHOOSE m \in S : \A x \in S : x <= m

\* get_next_id as the number of products plus one
get_next_id_by_count(ps) == Len(ps) + 1

\* get_next_id without the "+ 1"
get_next_id_max_only(ps) == IF ps = <<>> THEN 1 ELSE Max(Ids(ps))

get_next_id(ps) == IF ps = <<>> THEN 1 ELSE Max(Ids(ps)) + 1

\* get_product_by_id that goes on to the last product with that id
get_product_by_id_last(ps, product_id) ==
    LET at == {i \in 1..Len(ps) : ps[i].id = product_id}
    IN  IF at = {} THEN 0 ELSE CHOOSE i \in at : \A j \in at : j <= i

\* the position of the first product with that id, 0 for None
get_product_by_id(ps, product_id) ==
    LET at == {i \in 1..Len(ps) : ps[i].id = product_id}
    IN  IF at = {} THEN 0 ELSE CHOOSE i \in at : \A j \in at : i <= j

\* remove_product without the renumbering loop
remove_product_keep_ids(ps, product_id) ==
    SelectSeq(ps, LAMBDA p : p.id # product_id)

\* remove_product that drops only the first product with the id
remove_product_first_only(ps, product_id) ==
    LET at   == {i \in 1..Len(ps) : ps[i].id = product_id}
        k    == IF at = {} THEN 0 ELSE CHOOSE i \in at : \A j \in at : i <= j
        kept == [i \in 1..(Len(ps) - (IF k = 0 THEN 0 ELSE 1)) |->
                    ps[IF k = 0 \/ i < k THEN i ELSE i + 1]]
    IN  [i \in 1..Len(kept) |-> [kept[i] EXCEPT !.id = i]]

remove_product(ps, product_id) ==
    LET kept == SelectSeq(ps, LAMBDA p : p.id # product_id)
    IN  [i \in 1..Len(kept) |-> [kept[i] EXCEPT !.id = i]]

\* update_product that stores 0 when the new price or quantity does not
\* parse
update_product_defaulting(ps, product_id, field, new_value) ==
    LET i  == get_product_by_id(ps, product_id)
        pr == ParseFloat(new_value)
        qt == ParseInt(new_value)
    IN  IF i = 0 THEN [products |-> ps, err |-> "ok"]
        ELSE IF field = FieldNames[2]
        THEN [products |-> [ps EXCEPT ![i].name = new_value], err |-> "ok"]
        ELSE IF field = FieldNames[3]
        THEN [products |-> [ps EXCEPT ![i].desc = new_value], err |-> "ok"]
        ELSE IF field = FieldNames[4]
        THEN [products |-> [ps EXCEPT ![i].price = pr.val], err |-> "ok"]
        ELSE IF field = FieldNames[5]
        THEN [products |-> [ps EXCEPT ![i].quantity = qt.val], err |-> "ok"]
        ELSE [products |-> ps, err |-> "ok"]

\* update_product whose 'desc' branch assigns the name
update_product_wrong_field(ps, product_id, field, new_value) ==
    LET i  == get_product_by_id(ps, product_id)
        pr == ParseFloat(new_value)
        qt == ParseInt(new_value)
    IN  IF i = 0 THEN [products |-> ps, err |-> "ok"]
        ELSE IF field = FieldNames[2] \/ field = FieldNames[3]
        THEN [products |-> [ps EXCEPT ![i].name = new_value], err |-> "ok"]
        ELSE IF field = FieldNames[4]
        THEN IF pr.err # "ok" THEN [products |-> ps, err |-> pr.err]
             ELSE [products |-> [ps EXCEPT ![i].price = pr.val], err |-> "ok"]
        ELSE IF field = FieldNames[5]
        THEN IF qt.err # "ok" THEN [products |-> ps, err |-> qt.err]
             ELSE [products |-> [ps EXCEPT ![i].quantity = qt.val], err |-> "ok"]
        ELSE [products |-> ps, err |-> "ok"]

\* update_product whose last branch is an else: a field that is none of
\* name, desc and price is taken for the quantity
update_product_else_quantity(ps, product_id, field, new_value) ==
    LET i  == get_product_by_id(ps, product_id)
        pr == ParseFloat(new_value)
        qt == ParseInt(new_value)
    IN  IF i = 0 THEN [products |-> ps, err |-> "ok"]
        ELSE IF field = FieldNames[2]
        THEN [products |-> [ps EXCEPT ![i].name = new_value], err |-> "ok"]
        ELSE IF field = FieldNames[3]
        THEN [products |-> [ps EXCEPT ![i].desc = new_value], err |-> "ok"]
        ELSE IF field = FieldNames[4]
        THEN IF pr.err # "ok" THEN [products |-> ps, err |-> pr.err]
             ELSE [products |-> [ps EXCEPT ![i].price = pr.val], err |-> "ok"]
        ELSE IF qt.err # "ok" THEN [products |-> ps, err |-> qt.err]
        ELSE [products |-> [ps EXCEPT ![i].quantity = qt.val], err |-> "ok"]

update_product(ps, product_id, field, new_value) ==
    LET i  == get_product_by_id(ps, product_id)
        pr == ParseFloat(new_value)
        qt == ParseInt(new_value)
    IN  IF i = 0 THEN [products |-> ps, err |-> "ok"]
        ELSE IF field = FieldNames[2]
        THEN [products |-> [ps EXCEPT ![i].name = new_value], err |-> "ok"]
        ELSE IF field = FieldNames[3]
        THEN [products |-> [ps EXCEPT ![i].desc = new_value], err |-> "ok"]
        ELSE IF field = FieldNames[4]
        THEN IF pr.err # "ok" THEN [products |-> ps, err |-> pr.err]
             ELSE [products |-> [ps EXCEPT ![i].price = pr.val], err |-> "ok"]
        ELSE IF field = FieldNames[5]
        THEN IF qt.err # "ok" THEN [products |-> ps, err |-> qt.err]
             ELSE [products |-> [ps EXCEPT ![i].quantity = qt.val], err |-> "ok"]
        ELSE [products |-> ps, err |-> "ok"]

add_product(ps, product) == Append(ps, product)

\* display_products renders every product; Product.__str__ takes len() of
\* the name and of the description, which raises TypeError on None
Displayable(ps) ==
    \A i \in 1..Len(ps) : ps[i].name # None /\ ps[i].desc # None

(***************************************************************************)
(* What the user types at the prompts, and the files found at startup.    *)
(***************************************************************************)
\* a text that is no number and that the CSV writer has to quote
Odd == <<"a", ",", "QUOTE", "CR", "b">>

ActionInputs ==
    { <<"a", "d", "d">>, <<"A", "d", "d">>, <<"v", "i", "e", "w">>,
      <<"u", "p", "d", "a", "t", "e">>, <<"d", "e", "l", "e", "t", "e">>,
      <<"e", "x", "i", "t">>, <<"E", "X", "I", "T">>, <<"x">> }

NameInputs == {Odd}

DescInputs == {<<"7">>}

PriceInputs == {<<"9", ".", "5">>, Odd}

QuantityInputs == {<<"1", "0">>, <<"7", ".", "0">>}

IdInputs == {IntStr(i) : i \in 1..(MaxProducts + 1)} \cup {<<"x">>}

FieldInputs ==
    { FieldNames[2], FieldNames[3], <<"P", "r", "i", "c", "e">>,
      FieldNames[5], <<"i", "d">> }

ValueInputs == {<<"7">>, Odd}

NoFile == [exists |-> FALSE, text |-> <<>>]

Header == WriteRow(FieldNames)

\* a file written by hand, with "\n" line ends, a line break inside a
\* quoted name, and the ids 1..2 in the order 2, 1
HandFile ==
    [exists |-> TRUE,
     text |-> JoinFields(FieldNames) \o <<"LF">>
              \o <<"2", ",", "QUOTE", "a", "LF", "b", "QUOTE", ",", "d", ",",
                   "9", ".", "5", ",", "1", "0", "LF">>
              \o <<"1", ",", "7", ",", "7", ",", "7", ",", "7", "LF">>]

\* files whose rows parse, with ids that are not 1..N
GapFile ==
    [exists |-> TRUE,
     text |-> Header \o WriteRow(<<IntStr(2), <<"7">>, <<"7">>, FloatStr(700), IntStr(7)>>)]

DupFile ==
    [exists |-> TRUE,
     text |-> Header
              \o WriteRow(<<IntStr(1), <<"7">>, <<"7">>, FloatStr(700), IntStr(7)>>)
              \o WriteRow(<<IntStr(1), Odd, <<"7">>, FloatStr(950), IntStr(10)>>)]

\* files with a malformed row: a non-numeric id, price or quantity, a row
\* that lacks its last columns, and a row that lacks the name and the
\* description its header puts last
BadIdFile ==
    [exists |-> TRUE,
     text |-> Header \o WriteRow(<<IntStr(1), <<"7">>, <<"7">>, FloatStr(700), IntStr(7)>>)
              \o WriteRow(<<<<"x">>, <<"7">>, <<"7">>, FloatStr(700), IntStr(7)>>)]

BadPriceFile ==
    [exists |-> TRUE,
     text |-> Header \o WriteRow(<<IntStr(1), <<"7">>, <<"7">>, <<"x">>, IntStr(7)>>)]

BadQuantityFile ==
    [exists |-> TRUE,
     text |-> Header \o WriteRow(<<IntStr(1), <<"7">>, <<"7">>, FloatStr(700), <<"7", ".", "5">>>>)]

ShortRowFile ==
    [exists |-> TRUE,
     text |-> Header \o WriteRow(<<IntStr(1), <<"7">>, <<"7">>>>)]

ShortNameFile ==
    [exists |-> TRUE,
     text |-> WriteRow(<<FieldNames[1], FieldNames[4], FieldNames[5],
                         FieldNames[2], FieldNames[3]>>)
              \o WriteRow(<<IntStr(1), FloatStr(700), IntStr(7)>>)]

InitFiles ==
    { NoFile, HandFile, GapFile, DupFile, BadIdFile, BadPriceFile,
      BadQuantityFile, ShortRowFile, ShortNameFile }

(***************************************************************************)
(* main(): the startup load and the session loop.  pc is "Start" before   *)
(* load_data, "Display" at the top of the loop, "Prompt" at the input of  *)
(* the action, "Exiting" after the break and "Crashed" after an exception *)
(* nothing catches.  The session is running when pc is "Display" or       *)
(* "Prompt".  msg is what the screen shows below the table: the reports   *)
(* printed since display_products cleared the screen, each recorded by    *)
(* its format string (the report of an update with the field name in it,  *)
(* character by character), and the name of an exception that ended the   *)
(* program.                                                                *)
(***************************************************************************)
InvalidInput == "Invalid input. Please enter a valid product ID."

NotFound == "Product not found."

CurrentDetails == "Current Product Details:"

Updated(field) == <<"Product ">> \o field \o <<" updated successfully.">>

Deleted == "Product with ID {product_id} deleted successfully."

Init ==
    /\ products = <<>>
    /\ file \in InitFiles
    /\ pc = "Start"
    /\ msg = <<>>

Load ==
    /\ pc = "Start"
    /\ LET r == load_data(products, file)
       IN  /\ products' = r.products
           /\ pc' = IF r.err = "ok" THEN "Display" ELSE "Crashed"
           /\ msg' = IF r.err = "ok" THEN msg ELSE <<r.err>>
    /\ UNCHANGED file

\* the top of the loop: display_products clears the screen and renders the
\* table, and raises on a product it cannot render
Display ==
    /\ pc = "Display"
    /\ pc' = IF Displayable(products) THEN "Prompt" ELSE "Crashed"
    /\ msg' = IF Displayable(products) THEN <<>> ELSE <<"TypeError">>
    /\ UNCHANGED <<products, file>>

Prompt == pc = "Prompt"

\* the exit branch without its save_data call
ExitWithoutSave(a) ==
    /\ Lower(a) = <<"e", "x", "i", "t">>
    /\ msg' = <<"Exiting the program...">>
    /\ pc' = "Exiting"
    /\ UNCHANGED <<products, file>>

\* the action typed is compared in lower case
ExitWith(a) ==
    /\ Lower(a) = <<"e", "x", "i", "t">>
    /\ file' = save_data(products)
    /\ msg' = <<"Exiting the program...">>
    /\ pc' = "Exiting"
    /\ UNCHANGED products

Exit ==
    /\ Prompt
    /\ \E a \in ActionInputs : ExitWith(a)

\* the add branch with a save_data call after add_product
AddWithSave(name, desc, price, quantity) ==
    LET new_id == get_next_id(products)
        pr     == ParseFloat(price)
        qt     == ParseInt(quantity)
        err    == FirstError(<<pr.err, qt.err>>)
    IN  /\ err = "ok" => Len(products) < MaxProducts
        /\ IF err = "ok"
           THEN /\ products' = add_product(products,
                                   Product(new_id, name, desc, pr.val, qt.val))
                /\ file' = save_data(products')
                /\ msg' = <<"Product added successfully.">>
                /\ pc' = "Display"
           ELSE /\ products' = products
                /\ file' = file
                /\ msg' = <<err>>
                /\ pc' = "Crashed"

AddWith(name, desc, price, quantity) ==
    LET new_id == get_next_id(products)
        pr     == ParseFloat(price)
        qt     == ParseInt(quantity)
        err    == FirstError(<<pr.err, qt.err>>)
    IN  /\ err = "ok" => Len(products) < MaxProducts
        /\ IF err = "ok"
           THEN /\ products' = add_product(products,
                                   Product(new_id, name, desc, pr.val, qt.val))
                /\ msg' = <<"Product added successfully.">>
                /\ pc' = "Display"
           ELSE /\ products' = products
                /\ msg' = <<err>>
                /\ pc' = "Crashed"
        /\ UNCHANGED file

Add ==
    /\ Prompt
    /\ \E a \in ActionInputs : Lower(a) = <<"a", "d", "d">>
    /\ \E name \in NameInputs, desc \in DescInputs,
          price \in PriceInputs, quantity \in QuantityInputs :
          AddWith(name, desc, price, quantity)

ViewWith(idtext) ==
    LET id == ParseInt(idtext)
    IN  /\ msg' = IF id.err # "ok" THEN <<InvalidInput>>
                  ELSE IF get_product_by_id(products, id.val) = 0
                  THEN <<NotFound>>
                  ELSE <<"Product Details:">>
        /\ pc' = "Display"
        /\ UNCHANGED <<products, file>>

View ==
    /\ Prompt
    /\ \E a \in ActionInputs : Lower(a) = <<"v", "i", "e", "w">>
    /\ \E idtext \in IdInputs : ViewWith(idtext)

UpdateWith(idtext, fieldtext, new_value) ==
    LET id == ParseInt(idtext)
        r  == update_product(products, id.val, Lower(fieldtext), new_value)
    IN  /\ IF id.err # "ok"
           THEN /\ msg' = <<InvalidInput>>
                /\ products' = products
           ELSE IF get_product_by_id(products, id.val) = 0
           THEN /\ msg' = <<NotFound>>
                /\ products' = products
           ELSE IF r.err # "ok"
           THEN /\ msg' = <<CurrentDetails, InvalidInput>>
                /\ products' = r.products
           ELSE /\ msg' = <<CurrentDetails>> \o Updated(Lower(fieldtext))
                /\ products' = r.products
        /\ pc' = "Display"
        /\ UNCHANGED file

Update ==
    /\ Prompt
    /\ \E a \in ActionInputs : Lower(a) = <<"u", "p", "d", "a", "t", "e">>
    /\ \E idtext \in IdInputs, fieldtext \in FieldInputs, new_value \in ValueInputs :
          UpdateWith(idtext, fieldtext, new_value)

\* the delete branch without its lookup of the id
DeleteWithoutLookup(idtext) ==
    LET id == ParseInt(idtext)
    IN  /\ IF id.err # "ok"
           THEN /\ msg' = <<InvalidInput>>
                /\ products' = products
           ELSE /\ msg' = <<Deleted>>
                /\ products' = remove_product(products, id.val)
        /\ pc' = "Display"
        /\ UNCHANGED file

DeleteWith(idtext) ==
    LET id == ParseInt(idtext)
    IN  /\ IF id.err # "ok"
           THEN /\ msg' = <<InvalidInput>>
                /\ products' = products
           ELSE IF get_product_by_id(products, id.val) = 0
           THEN /\ msg' = <<NotFound>>
                /\ products' = products
           ELSE /\ msg' = <<Deleted>>
                /\ products' = remove_product(products, id.val)
        /\ pc' = "Display"
        /\ UNCHANGED file

Delete ==
    /\ Prompt
    /\ \E a \in ActionInputs : Lower(a) = <<"d", "e", "l", "e", "t", "e">>
    /\ \E idtext \in IdInputs : DeleteWith(idtext)

Invalid ==
    /\ Prompt
    /\ \E a \in ActionInputs :
          Lower(a) \notin { <<"e", "x", "i", "t">>, <<"a", "d", "d">>,
                            <<"v", "i", "e", "w">>,
                            <<"u", "p", "d", "a", "t", "e">>,
                            <<"d", "e", "l", "e", "t", "e">> }
    /\ msg' = <<"Invalid action. Please try again.">>
    /\ pc' = "Display"
    /\ UNCHANGED <<products, file>>

\* input() raises EOFError when the input ends, which nothing catches
InputEnds ==
    /\ Prompt
    /\ pc' = "Crashed"
    /\ msg' = <<"EOFError">>
    /\ UNCHANGED <<products, file>>

Next ==
    \/ Load
    \/ Display
    \/ Exit
    \/ Add
    \/ View
    \/ Update
    \/ Delete
    \/ Invalid
    \/ InputEnds

Spec == Init /\ [][Next]_vars

(***************************************************************************)
(* The Inventory class used directly, as a caller other than main may use *)
(* it: after Inventory() and load_data the caller adds products under the *)
(* id get_next_id gives and calls remove_product with any id, present or  *)
(* not.  pc is "Start" before load_data, "Inventory" once it has returned *)
(* and "Crashed" when it raised; msg is the last call, with the id passed *)
(* to remove_product written digit by digit.                               *)
(***************************************************************************)
RemoveIds == 1..(MaxProducts + 1)

CallLoad ==
    /\ pc = "Start"
    /\ LET r == load_data(products, file)
       IN  /\ products' = r.products
           /\ pc' = IF r.err = "ok" THEN "Inventory" ELSE "Crashed"
           /\ msg' = IF r.err = "ok" THEN <<"load_data">> ELSE <<r.err>>
    /\ UNCHANGED file

CallAdd ==
    /\ pc = "Inventory"
    /\ Len(products) < MaxProducts
    /\ \E name \in ValueInputs, desc \in DescInputs,
          price \in PriceInputs, quantity \in QuantityInputs :
          /\ ParseFloat(price).err = "ok"
          /\ ParseInt(quantity).err = "ok"
          /\ products' = add_product(products,
                             Product(get_next_id(products), name, desc,
                                     ParseFloat(price).val, ParseInt(quantity).val))
    /\ msg' = <<"add_product">>
    /\ UNCHANGED <<file, pc>>

CallRemove(product_id) ==
    /\ pc = "Inventory"
    /\ products' = remove_product(products, product_id)
    /\ msg' = <<"remove_product">> \o IntStr(product_id)
    /\ UNCHANGED <<file, pc>>

Remove == \E product_id \in RemoveIds : CallRemove(product_id)

NextInventory ==
    \/ CallLoad
    \/ CallAdd
    \/ Remove

SpecInventory == Init /\ [][NextInventory]_vars

(***************************************************************************)
(* The claims.                                                             *)
(***************************************************************************)
\* the session is in its loop, between two operations
Running == pc \in {"Display", "Prompt"}

SameFields(p, q) ==
    /\ p.name = q.name
    /\ p.desc = q.desc
    /\ p.price = q.price
    /\ p.quantity = q.quantity

\* C1: between operations (after the startup load of any file whose rows
\* parse, and after each add, view, update or delete) the set of product
\* ids is exactly 1..N, N the number of products.
C1_IdsAreOneToN ==
    Running => Ids(products) = 1..Len(products)

\* C2: between operations no two products of the inventory have the same
\* id.
C2_IdsAreUnique ==
    Running =>
        \A i, j \in 1..Len(products) :
            i # j => products[i].id # products[j].id

\* C3: the file written by save_data, loaded into a fresh, empty Inventory,
\* gives the products that were saved: the same sequence, field by field.
C3_SaveThenLoad ==
    pc = "Exiting" =>
        load_data(<<>>, file) = [products |-> products, err |-> "ok"]

\* a delete step of the session that removed the product with the id typed
DeleteStep(idtext) ==
    /\ Prompt
    /\ DeleteWith(idtext)
    /\ msg' = <<Deleted>>

NonNumericEntered ==
    /\ Prompt
    /\ \/ \E name \in NameInputs, desc \in DescInputs,
             price \in PriceInputs, quantity \in QuantityInputs :
             /\ AddWith(name, desc, price, quantity)
             /\ FirstError(<<ParseFloat(price).err, ParseInt(quantity).err>>) # "ok"
       \/ \E idtext \in IdInputs :
             /\ ParseInt(idtext).err # "ok"
             /\ \/ ViewWith(idtext)
                \/ DeleteWith(idtext)
                \/ \E fieldtext \in FieldInputs, new_value \in ValueInputs :
                      UpdateWith(idtext, fieldtext, new_value)
       \/ \E idtext \in IdInputs, fieldtext \in FieldInputs, new_value \in ValueInputs :
             /\ UpdateWith(idtext, fieldtext, new_value)
             /\ msg' = <<CurrentDetails, InvalidInput>>

\* C5: in every action of the loop (add, view, update, delete) a
\* non-numeric id, price or quantity typed at a prompt is caught inside the
\* loop: the inventory is unchanged and the session goes back to the top
\* of the loop; the loop never ends because of such an input.
C5_ParseErrorsAreCaught ==
    [][NonNumericEntered => (pc' = "Display" /\ products' = products)]_vars

\* C6: from the prompt, exit typed in any letter case saves the in-memory
\* inventory and ends the loop: at "Exiting" the file is the one save_data
\* writes of the products in memory, which the step left as they were, and
\* no step follows.
C6_ExitSavesAndHalts ==
    /\ [](Prompt => \A a \in {<<"e", "x", "i", "t">>, <<"E", "X", "I", "T">>} :
                        ENABLED ExitWith(a))
    /\ [][pc' = "Exiting" =>
              (Prompt /\ products' = products /\ file' = save_data(products))]_vars
    /\ [](pc = "Exiting" => file = save_data(products))
    /\ [][pc # "Exiting"]_vars

\* C6 witness: the session has exited with a product in memory and the
\* file written
C6_Witness ==
    /\ pc = "Exiting"
    /\ products # <<>>
    /\ file.exists
    /\ file \notin InitFiles

\* C7: get_next_id is 1 on an empty inventory and otherwise the largest id
\* plus one; right after a delete it is the number of products plus one.
C7_NextId ==
    /\ products = <<>> => get_next_id(products) = 1
    /\ products # <<>> =>
          /\ get_next_id(products) - 1 \in Ids(products)
          /\ \A i \in 1..Len(products) : products[i].id < get_next_id(products)
    /\ msg = <<Deleted>> => get_next_id(products) = Len(products) + 1

\* C7 witness: a session that loaded ids with a gap has deleted a product
\* and still holds one
C7_Witness ==
    /\ file = GapFile
    /\ msg = <<Deleted>>
    /\ products # <<>>

\* C8: in a session that began with an empty inventory, after any adds
\* (each with the id get_next_id gave) and deletes of present ids, the
\* product at position i has id i.
C8_PositionIsId ==
    file = NoFile => \A i \in 1..Len(products) : products[i].id = i

\* C8 witness: a session that began empty has deleted a product; the one
\* left has id 1 and carries a name given to it by an update
C8_Witness ==
    /\ file = NoFile
    /\ msg = <<Deleted>>
    /\ Len(products) = 1
    /\ products[1].id = 1
    /\ products[1].name = <<"7">>

\* new_value does not parse as the number the field holds
BadValue(field, new_value) ==
    \/ field = FieldNames[4] /\ ParseFloat(new_value).err # "ok"
    \/ field = FieldNames[5] /\ ParseInt(new_value).err # "ok"

\* C9: update_product on price or quantity with a new value that does not
\* parse as a decimal / an integer fails with the parse error (ValueError)
\* and leaves the product, and the whole inventory, unchanged; the session
\* that meets the error in an update keeps its inventory and goes on.
C9_BadValueChangesNothing ==
    /\ [](Prompt =>
            \A i \in 1..Len(products), new_value \in ValueInputs :
                \A field \in {FieldNames[4], FieldNames[5]} :
                    BadValue(field, new_value) =>
                        update_product(products, products[i].id, field, new_value)
                            = [products |-> products, err |-> "ValueError"])
    /\ [][(Prompt /\ msg' = <<CurrentDetails, InvalidInput>>) =>
              (products' = products /\ pc' = "Display")]_vars

\* C9 witness: an update of a product that is present has ended in the
\* parse error
C9_Witness ==
    /\ msg = <<CurrentDetails, InvalidInput>>
    /\ products # <<>>

\* the reports of a successful update the screen can show
UpdatedReports ==
    {<<CurrentDetails>> \o Updated(Lower(fieldtext)) : fieldtext \in FieldInputs}

\* the products ps and qs differ in at most one of the fields name, desc,
\* price and quantity of one product
OneFieldApart(ps, qs) ==
    /\ Len(qs) = Len(ps)
    /\ \A j \in 1..Len(ps) : qs[j].id = ps[j].id
    /\ Cardinality({<<j, f>> \in (1..Len(ps)) \X {"name", "desc", "price", "quantity"} :
                       qs[j][f] # ps[j][f]}) <= 1

\* the Product field a field name of update_product stands for
FieldOf(field) ==
    CASE field = FieldNames[2] -> "name"
      [] field = FieldNames[3] -> "desc"
      [] field = FieldNames[4] -> "price"
      [] field = FieldNames[5] -> "quantity"

\* the value update_product stores in that field for new_value
StoredValue(field, new_value) ==
    CASE field = FieldNames[4] -> ParseFloat(new_value).val
      [] field = FieldNames[5] -> ParseInt(new_value).val
      [] OTHER -> new_value

\* C10: a successful update_product on name, desc, price or quantity
\* changes that one field of the (first) product with that id and nothing
\* else: its id and other three fields, every other product, and the order
\* and length of the sequence stay as they were; a successful update of
\* the session changes at most one field of one product.
C10_UpdateChangesOneField ==
    /\ [](Prompt =>
            \A i \in 1..Len(products), new_value \in ValueInputs :
                \A field \in {FieldNames[2], FieldNames[3], FieldNames[4], FieldNames[5]} :
                    LET id == products[i].id
                        k  == get_product_by_id(products, id)
                        r  == update_product(products, id, field, new_value)
                    IN  r.err = "ok" =>
                            /\ Len(r.products) = Len(products)
                            /\ \A j \in 1..Len(products) :
                                  j # k => r.products[j] = products[j]
                            /\ r.products[k].id = id
                            /\ \A f \in {"name", "desc", "price", "quantity"} :
                                  r.products[k][f] =
                                      IF f = FieldOf(field)
                                      THEN StoredValue(field, new_value)
                                      ELSE products[k][f])
    /\ [][(Prompt /\ msg' \in UpdatedReports) =>
              (OneFieldApart(products, products') /\ pc' = "Display")]_vars

\* C10 witness: in a session that began empty an update has given a
\* product a new price and left its name, description and quantity
C10_Witness ==
    /\ file = NoFile
    /\ msg = <<CurrentDetails>> \o Updated(FieldNames[4])
    /\ \E i \in 1..Len(products) :
          /\ products[i].price = 700
          /\ products[i].name = Odd
          /\ products[i].desc = <<"7">>
          /\ products[i].quantity = 10

\* idtext is the text of an integer that is the id of no product
Absent(idtext) ==
    /\ ParseInt(idtext).err = "ok"
    /\ get_product_by_id(products, ParseInt(idtext).val) = 0

\* what a step leaves when it reported the id as not found
ReportedNotFound ==
    /\ msg' = <<NotFound>>
    /\ products' = products
    /\ file' = file
    /\ pc' = "Display"

\* a view, update or delete step of the session with the id typed as
\* idtext; the update branch asks for the field and the new value only
\* once it has found the product, so for an id it does not find they are
\* never read and any of them stands for the step
LookupStep(idtext) ==
    /\ Prompt
    /\ \/ ViewWith(idtext)
       \/ DeleteWith(idtext)
       \/ UpdateWith(idtext, FieldNames[2], Odd)

\* C11: a view, an update or a delete of a well-formed id that no product
\* has prints "Product not found.", leaves the inventory as it was (nothing
\* removed, no id renumbered, no field changed) and goes back to the top of
\* the loop; a step that prints that report never changes the inventory.
C11_AbsentIdIsNotFound ==
    /\ [][\A idtext \in IdInputs :
              (Absent(idtext) /\ LookupStep(idtext)) => ReportedNotFound]_vars
    /\ [][(Prompt /\ msg' = <<NotFound>>) =>
              (products' = products /\ pc' = "Display")]_vars

\* C11 witness: an id that no product of a non-empty inventory has was
\* asked for and reported as not found; the session is back in its loop
C11_Witness ==
    /\ msg = <<NotFound>>
    /\ pc = "Display"
    /\ products # <<>>

\* a row of the file that lacks a column of the header, or whose id, price
\* or quantity column holds a text that is no number
MalformedRow(names, row) ==
    /\ row # <<>>
    /\ \/ Len(row) < Len(names)
       \/ \E key \in {FieldNames[1], FieldNames[5]} :
             /\ Column(names, row, key).val # None
             /\ ParseInt(Column(names, row, key).val).err # "ok"
       \/ /\ Column(names, row, FieldNames[4]).val # None
          /\ ParseFloat(Column(names, row, FieldNames[4]).val).err # "ok"

HasMalformedRow(f) ==
    /\ f.exists
    /\ LET rows == ReadRows(Translate(f.text))
       IN  \E i \in 2..Len(rows) : MalformedRow(rows[1], rows[i])

\* C12: the startup load of a file that holds a row with a non-numeric id,
\* price or quantity, or a row with a missing column, ends in an exception:
\* the session never enters its loop, and load_data never returns normally
\* with the row left out or with a default in place of what is missing.
C12_MalformedRowEndsLoad ==
    (file \in InitFiles /\ HasMalformedRow(file)) =>
        pc \in {"Start", "Crashed"}

\* C13: remove_product called with an id that no product has is a no-op:
\* the product sequence, every id included, is after the call what it was
\* before, whatever inventory load_data and the calls before have left.
C13_RemoveAbsentIsNoOp ==
    [][\A product_id \in RemoveIds :
          (CallRemove(product_id) /\ product_id \notin Ids(products)) =>
              products' = products]_vars

\* C13, amended: remove_product called with an id that no product has
\* removes nothing and keeps the order and every name, desc, price and
\* quantity, and it renumbers: the product at position i has id i after
\* the call; the sequence is what it was before exactly when every product
\* already had its position as id.
C13_RemoveAbsentRenumbers ==
    [][\A product_id \in RemoveIds :
          (CallRemove(product_id) /\ product_id \notin Ids(products)) =>
              /\ Len(products') = Len(products)
              /\ \A i \in 1..Len(products) :
                    /\ SameFields(products'[i], products[i])
                    /\ products'[i].id = i
              /\ (products' = products) <=>
                    (\A i \in 1..Len(products) : products[i].id = i)]_vars

\* C13 witness: the inventory loaded with the ids 2, 1 has the ids 1, 2
\* after remove_product of an id it never held; both products are there,
\* in their order
C13_Witness ==
    /\ file = HandFile
    /\ msg = <<"remove_product">> \o IntStr(MaxProducts + 1)
    /\ Len(products) = 2
    /\ products[1].id = 1 /\ products[1].name = <<"a", "LF", "b">>
    /\ products[2].id = 2 /\ products[2].name = <<"7">>

\* field names update_product does not know: 'id', the empty text, and
\* 'Name', which main would have put in lower case
UnknownFields == {FieldNames[1], <<>>, <<"N", "a", "m", "e">>}

\* C14: update_product with a field that is none of name, desc, price and
\* quantity raises nothing and returns the inventory as it was, whatever
\* the id and the new value are; the session that asks for such an update
\* of a product it holds reports success and keeps its inventory.
C14_UnknownFieldChangesNothing ==
    /\ [](Prompt =>
            \A product_id \in RemoveIds, field \in UnknownFields,
               new_value \in ValueInputs :
                update_product(products, product_id, field, new_value)
                    = [products |-> products, err |-> "ok"])
    /\ [][(Prompt /\ msg' = <<CurrentDetails>> \o Updated(FieldNames[1])) =>
              (products' = products /\ pc' = "Display")]_vars

\* C14 witness: the update of the field 'id' of a product of the inventory
\* has been reported as done
C14_Witness ==
    /\ msg = <<CurrentDetails>> \o Updated(FieldNames[1])
    /\ products # <<>>

\* C15: get_product_by_id returns a product with the id asked for whenever
\* the inventory holds one, and then the first of them in sequence order;
\* it returns None exactly when no product has the id; it always returns
\* (a position of the sequence, or None); and the lookup changes nothing:
\* the view step that shows the product found leaves the inventory as it
\* was.
C15_FindById ==
    /\ [](\A product_id \in RemoveIds :
            LET k == get_product_by_id(products, product_id)
            IN  /\ k \in 0..Len(products)
                /\ k = 0 <=> product_id \notin Ids(products)
                /\ k # 0 =>
                      /\ products[k].id = product_id
                      /\ \A j \in 1..(k - 1) : products[j].id # product_id)
    /\ [][(Prompt /\ msg' = <<"Product Details:">>) =>
              (products' = products /\ pc' = "Display")]_vars

\* C15 witness: the session that loaded two products with the same id has
\* looked that id up and shown a product
C15_Witness ==
    /\ file = DupFile
    /\ msg = <<"Product Details:">>
    /\ Len(products) = 2
    /\ products[1].id = products[2].id

\* C16: only the exit step writes the file: every other step of the
\* session (the load, the display, add, view, update, delete, an invalid
\* action, and an exception that ends the program) leaves the file as it
\* is, so a session that has not exited, ended or not, has the file it
\* started with.
C16_OnlyExitWrites ==
    /\ [][pc' # "Exiting" => file' = file]_vars
    /\ [](pc # "Exiting" => file \in InitFiles)

\* C16 witness: a session that began with no file was ended by the end of
\* its input with a product in memory; there is still no file
C16_Witness ==
    /\ pc = "Crashed"
    /\ msg = <<"EOFError">>
    /\ products # <<>>
    /\ file = NoFile

\* the positions of the products of ps whose id is not product_id, in order
KeptPositions(ps, product_id) ==
    SelectSeq([i \in 1..Len(ps) |-> i], LAMBDA i : ps[i].id # product_id)

\* C17: after every remove_product call, whatever the ids were before (with
\* gaps, out of order or duplicated, as load_data takes them from a file)
\* and whether or not a product had the id passed, the product at position
\* i has id i, and the products left are exactly those whose id was not the
\* one passed, in their order and with their name, desc, price and
\* quantity: every product that had the id is gone.
C17_RemoveLeavesPositions ==
    [][\A product_id \in RemoveIds :
          CallRemove(product_id) =>
              LET kept == KeptPositions(products, product_id)
              IN  /\ Len(products') = Len(kept)
                  /\ \A i \in 1..Len(kept) :
                        /\ products'[i].id = i
                        /\ SameFields(products'[i], products[kept[i]])]_vars

\* C17 witness: the inventory loaded with two products of id 1 is empty
\* after remove_product(1)
C17_Witness ==
    /\ file = DupFile
    /\ msg = <<"remove_product">> \o IntStr(1)
    /\ products = <<>>

====
